---- MODULE Spec2Model ----
(***************************************************************************)
(* Reservation marketplace: the bid / buy-now / rate-limit core.           *)
(*                                                                         *)
(* The store is the Supabase (PostgreSQL) database: the tables             *)
(* reservations, bids, rate_limits and reservation_history, with the       *)
(* BEFORE INSERT trigger enforce_bid_rate_limit on bids and the BEFORE     *)
(* UPDATE trigger handle_bid_expiration on reservations.  Every client is  *)
(* one browser session holding the ReservationContext cache                *)
(* (`reservations`) and the ReservationDetailPage state (`bids`).  A       *)
(* handler is a sequence of store calls; each store call is one            *)
(* transaction, and the transactions of different clients interleave.  An  *)
(* INSERT into bids is a transaction of two steps: the trigger's check     *)
(* against the committed rows (READ COMMITTED: the rows of transactions    *)
(* that have not committed are invisible), then the commit of its writes.  *)
(* Time is in milliseconds.                                                *)
(***************************************************************************)
EXTENDS Integers, Sequences, FiniteSets, TLC

----------------------------------------------------------------------------
(* Program constants *)

\* enforce_bid_rate_limit: max_bids_per_window INTEGER := 5
max_bids_per_window == 5
\* enforce_bid_rate_limit: window_seconds INTEGER := 300
window_seconds == 300
\* api.bids.create: (expiresAt.getTime() - now.getTime()) / 1000
MsPerSecond == 1000
\* SQL NULL / JavaScript null, undefined
Null == -1

(* Bounds of the model *)

\* the clock advances TickMs at a time, MaxTicks times
TickMs == 150500
MaxTicks == 3
\* rows of the bids table in SpecRate
MaxBids == 6
\* rows of the bids table in Spec
MaxMarketBids == 2
\* rows of the reservation_history table in Spec
MaxSales == 2
\* rows of the rate_limits table in SpecCheck
MaxRows == 3
\* the largest p_max_attempts in SpecCheck
MaxAttemptsArg == 2
\* the largest retryAfter (s) a rate-limit error carries in SpecHook
MaxRetryAfter == 3
\* wrapped actions in flight in SpecHook
MaxPending == 2
\* intervals of useRateLimit alive at once in SpecHook
MaxTimers == 3

Clients == {"c1", "c2"}
Users == {"u1", "u2"}
Sellers == {"s1"}
Listings == {"l1"}
PLACE_BID == "place_bid"

VARIABLES
    now,                  \* the store's clock, ms
    reservations,         \* table reservations: id -> row
    bids,                 \* table bids, in commit order
    rate_limits,          \* table rate_limits, in commit order
    reservation_history,  \* table reservation_history, in commit order
    user,                 \* client -> the signed-in user (useUser().user.id)
    ctxReservations,      \* client -> ReservationContext `reservations` state
    pageBids,             \* client -> ReservationDetailPage `bids[0]` (or NoBid)
    call,                 \* client -> the handler in flight and its locals
    outcome,              \* client -> what the last finished handler reported
    rpc,                  \* the last statement issued directly against the
                          \* store: a call of check_rate_limit, or an UPDATE
    hook                  \* useRateLimit: its state, intervals and callers

vars == <<now, reservations, bids, rate_limits, reservation_history,
          user, ctxReservations, pageBids, call, outcome, rpc, hook>>

store == <<reservations, bids, rate_limits, reservation_history>>

----------------------------------------------------------------------------
(* JavaScript / SQL helpers *)

\* x || 0 on a number | null | undefined
OrZero(x) == IF x = Null THEN 0 ELSE x

\* Math.ceil(a / b), b > 0
CeilDiv(a, b) == IF a >= 0 THEN (a + b - 1) \div b ELSE -((-a) \div b)

NoBid == [id |-> 0, reservation_id |-> "none", user_id |-> "none",
          amount |-> Null, status |-> "none"]

\* txNow: when the call's store request was issued; found: the row the
\* pre-check read; seen: the user's bids rows committed when it was issued;
\* bid: the id of the bid being accepted (0: none)
Idle == [op |-> "idle", step |-> "idle", l |-> "none", amount |-> Null,
         txNow |-> Null, found |-> Null, seen |-> Null, bid |-> 0]

\* kind: what the caller sees; cause: what happened; retryAfter: the seconds
\* reported; at: when a rate-limit rejection was reported; with a retryAfter,
\* seen: the user's bids rows committed when the rejected call was issued
NoOutcome == [op |-> "none", kind |-> "none", cause |-> "none",
              retryAfter |-> Null, at |-> Null, seen |-> Null]

\* useRateLimit as mounted: not blocked, no interval, no wrapped action in
\* flight.  reported and elapsed: the remaining time of the last rate-limit
\* error handled, and the seconds since; last: what the last call returned
NoHook == [isBlocked |-> FALSE, remainingTime |-> Null, timers |-> 0,
           pending |-> 0, reported |-> Null, elapsed |-> 0, last |-> "none"]

NoRpc == [called |-> FALSE, p_user_id |-> "none", p_action_type |-> "none",
          p_max_attempts |-> 0, t |-> 0, before |-> <<>>, allowed |-> FALSE]

----------------------------------------------------------------------------
(* Rate limiter: supabase/migrations/20250418230902_divine_temple.sql *)

IsFor(r, p_user_id, p_action_type) ==
    r.user_id = p_user_id /\ r.action_type = p_action_type

\* DELETE FROM rate_limits WHERE user_id = .. AND action_type = .. AND expires_at < now()
CleanExpired(table, p_user_id, p_action_type, t) ==
    SelectSeq(table, LAMBDA r : ~(IsFor(r, p_user_id, p_action_type) /\ r.expires_at < t))

\* SELECT COUNT(*) .. WHERE user_id = .. AND action_type = .. AND expires_at > now()
AttemptCount(table, p_user_id, p_action_type, t) ==
    Cardinality({i \in DOMAIN table : /\ IsFor(table[i], p_user_id, p_action_type)
                                       /\ table[i].expires_at > t})

\* check_rate_limit as it would be with RETURN attempt_count <= p_max_attempts
check_rate_limit_le(table, p_user_id, p_action_type, p_max_attempts, t) ==
    LET cleaned == CleanExpired(table, p_user_id, p_action_type, t)
    IN  [table   |-> cleaned,
         allowed |-> AttemptCount(cleaned, p_user_id, p_action_type, t) <= p_max_attempts]

\* check_rate_limit: the table after the clean-up, and the returned boolean
check_rate_limit(table, p_user_id, p_action_type, p_max_attempts, t) ==
    LET cleaned == CleanExpired(table, p_user_id, p_action_type, t)
    IN  [table   |-> cleaned,
         allowed |-> AttemptCount(cleaned, p_user_id, p_action_type, t) < p_max_attempts]

\* record_rate_limit_attempt
record_rate_limit_attempt(table, p_user_id, p_action_type, p_window_seconds, t) ==
    Append(table, [user_id     |-> p_user_id,
                   action_type |-> p_action_type,
                   expires_at  |-> t + p_window_seconds * MsPerSecond])

\* enforce_bid_rate_limit as it would be if the exception left the clean-up
\* of check_rate_limit in place
enforce_bid_rate_limit_no_rollback(table, new_user_id, t) ==
    LET chk == check_rate_limit(table, new_user_id, PLACE_BID, max_bids_per_window, t)
    IN  IF ~chk.allowed
        THEN [raised |-> TRUE, table |-> chk.table]
        ELSE [raised |-> FALSE,
              table  |-> record_rate_limit_attempt(chk.table, new_user_id, PLACE_BID,
                                                   window_seconds, t)]

\* enforce_bid_rate_limit, BEFORE INSERT ON bids: RAISE EXCEPTION aborts the
\* transaction, which undoes the clean-up of check_rate_limit
enforce_bid_rate_limit(table, new_user_id, t) ==
    LET chk == check_rate_limit(table, new_user_id, PLACE_BID, max_bids_per_window, t)
    IN  IF ~chk.allowed
        THEN [raised |-> TRUE, table |-> table]
        ELSE [raised |-> FALSE,
              table  |-> record_rate_limit_attempt(chk.table, new_user_id, PLACE_BID,
                                                   window_seconds, t)]

----------------------------------------------------------------------------
(* Store reads *)

OpenBidsOf(l) == {i \in DOMAIN bids : bids[i].reservation_id = l /\ bids[i].status = "open"}

\* .from('bids').select('*').eq('reservation_id', id).eq('status', 'open')
\* .order('amount', {ascending: false}): the candidates for bids[0]
TopOpenBids(l) ==
    {bids[i] : i \in {j \in OpenBidsOf(l) :
                        \A k \in OpenBidsOf(l) : bids[k].amount <= bids[j].amount}}

LiveExpiries(table, u, t) ==
    {table[i].expires_at :
        i \in {j \in DOMAIN table : /\ IsFor(table[j], u, PLACE_BID)
                                    /\ table[j].expires_at > t}}

\* The pre-check as it would be with .order('expires_at', {ascending: true})
ActiveRateLimitAsc(table, u, t) ==
    LET live == LiveExpiries(table, u, t)
    IN  IF live = {} THEN Null
        ELSE CHOOSE e \in live : \A x \in live : e <= x

\* api.bids.create pre-check: rate_limits rows of the user with
\* expires_at > now, .order('expires_at', {ascending: false}).limit(1)
ActiveRateLimit(table, u, t) ==
    LET live == LiveExpiries(table, u, t)
    IN  IF live = {} THEN Null
        ELSE CHOOSE e \in live : \A x \in live : x <= e

UserBidCount(u) == Cardinality({i \in DOMAIN bids : bids[i].user_id = u})

----------------------------------------------------------------------------
(* Listing trigger: supabase/migrations/20250418231036_rough_moon.sql *)

\* handle_bid_expiration without the test of NEW.status
handle_bid_expiration_any_status(new, t) ==
    IF new.bid_end_time # Null /\ new.bid_end_time < t /\ new.allow_bidding = TRUE
    THEN IF new.current_bid # Null
         THEN [new EXCEPT !.status = "pending"]
         ELSE [new EXCEPT !.status = "expired"]
    ELSE new

\* handle_bid_expiration that also expires a row it finds pending
handle_bid_expiration_cascade(new, t) ==
    IF new.bid_end_time # Null /\ new.bid_end_time < t
       /\ new.status \in {"available", "pending"} /\ new.allow_bidding = TRUE
    THEN IF new.current_bid # Null /\ new.status = "available"
         THEN [new EXCEPT !.status = "pending"]
         ELSE [new EXCEPT !.status = "expired"]
    ELSE new

\* handle_bid_expiration, BEFORE UPDATE ON reservations (a NULL bid_end_time
\* makes the comparison NULL, which the IF takes as false)
handle_bid_expiration(new, t) ==
    IF new.bid_end_time # Null /\ new.bid_end_time < t
       /\ new.status = "available" /\ new.allow_bidding = TRUE
    THEN IF new.current_bid # Null
         THEN [new EXCEPT !.status = "pending"]
         ELSE [new EXCEPT !.status = "expired"]
    ELSE new

----------------------------------------------------------------------------
(* Errors: src/utils/tailwindUtils.ts (utils/error) *)

\* getRateLimitRemainingTime: details.retryAfter || null
getRateLimitRemainingTime(details) ==
    IF details = Null \/ details = 0 THEN Null ELSE details

RateLimitCauses == {"precheck", "trigger"}

\* error.code of the exception the trigger raises, as handleSupabaseError
\* copies it: the ERRCODE the RAISE names, or 42704 (undefined_object) from a
\* server that takes 'RATELIMIT' for neither an SQLSTATE nor a condition name.
\* error.details is null either way.
TriggerErrCodes == {"RATELIMIT", "42704"}

Report(c, op, kind, cause, retryAfter, seen) ==
    outcome' = [outcome EXCEPT ![c] =
                   [op |-> op, kind |-> kind, cause |-> cause,
                    retryAfter |-> retryAfter,
                    at   |-> IF cause \in RateLimitCauses THEN now ELSE Null,
                    seen |-> IF retryAfter # Null THEN seen ELSE Null]]

Finish(c) == call' = [call EXCEPT ![c] = Idle]

----------------------------------------------------------------------------
(* The INSERT INTO bids transaction *)

NewBid(c, status) ==
    [id |-> Len(bids) + 1, reservation_id |-> call[c].l,
     user_id |-> user[c], amount |-> call[c].amount, status |-> status]

\* The status of a bids row inserted without one: the column's default, which
\* no migration of the repository states
DefaultBidStatus == {"open", "null"}

\* Does the trigger raise for an insert by client c starting now?
TriggerRaises(c) == enforce_bid_rate_limit(rate_limits, user[c], now).raised

\* The statement is aborted: the table as the trigger's transaction leaves it
AbortInsert(c) ==
    /\ rate_limits' = enforce_bid_rate_limit(rate_limits, user[c], now).table
    /\ UNCHANGED <<reservations, bids, reservation_history>>

\* The check passed: the transaction is in flight
StartInsert(c, op, l, amount) ==
    /\ call' = [call EXCEPT ![c] = [op |-> op, step |-> "insert", l |-> l,
                                    amount |-> amount, txNow |-> now, found |-> Null,
                                    seen |-> Null, bid |-> 0]]
    /\ UNCHANGED store

\* The commit: the trigger's clean-up and record as of the transaction's
\* now(), and the new row
CommitInsert(c, status) ==
    /\ rate_limits' = record_rate_limit_attempt(
                          check_rate_limit(rate_limits, user[c], PLACE_BID,
                                           max_bids_per_window, call[c].txNow).table,
                          user[c], PLACE_BID, window_seconds, call[c].txNow)
    /\ bids' = Append(bids, NewBid(c, status))
    /\ UNCHANGED <<reservations, reservation_history>>

InFlight == {c \in Clients : call[c].step = "insert"}

\* Room for one more bids row within max
HasRoom(max) == Len(bids) + Cardinality(InFlight) < max

----------------------------------------------------------------------------
(* ReservationDetailPage.handlePlaceBid: validate against the page's bids,   *)
(* insert the bid                                                          *)

PageHighestBid(c, l) == IF pageBids[c][l] = NoBid THEN 0 ELSE pageBids[c][l].amount

handlePlaceBidInvalid(c, l, bidValue) ==
    bidValue <= 0 \/ bidValue <= PageHighestBid(c, l)

handlePlaceBid(c, l, bidValue, max) ==
    /\ call[c] = Idle
    /\ IF handlePlaceBidInvalid(c, l, bidValue)
       THEN /\ Report(c, "handlePlaceBid", "error", "validation", Null, Null)
            /\ UNCHANGED <<call, store>>
       ELSE IF TriggerRaises(c)
       THEN /\ Report(c, "handlePlaceBid", "error", "trigger", Null, Null)
            /\ AbortInsert(c)
            /\ UNCHANGED call
       ELSE /\ HasRoom(max)
            /\ StartInsert(c, "handlePlaceBid", l, bidValue)
            /\ UNCHANGED outcome
    /\ UNCHANGED <<now, user, hook, ctxReservations, pageBids, rpc>>

handlePlaceBidCommit(c) ==
    /\ call[c].op = "handlePlaceBid" /\ call[c].step = "insert"
    /\ CommitInsert(c, "open")
    /\ Finish(c)
    /\ Report(c, "handlePlaceBid", "ok", "none", Null, Null)
    /\ UNCHANGED <<now, user, hook, ctxReservations, pageBids, rpc>>

\* fetchReservation, run on mount and by the bids-changes subscription
fetchReservation(c, l) ==
    /\ call[c] = Idle
    /\ \E top \in (IF OpenBidsOf(l) = {} THEN {NoBid} ELSE TopOpenBids(l)) :
           pageBids' = [pageBids EXCEPT ![c][l] = top]
    /\ pageBids' # pageBids
    /\ UNCHANGED <<now, store, user, hook, ctxReservations, call, outcome, rpc>>

----------------------------------------------------------------------------
(* fetchReservation: sales history and market stats                        *)

RECURSIVE Reverse(_)
Reverse(seq) == IF seq = <<>> THEN <<>>
                ELSE Append(Reverse(Tail(seq)), Head(seq))

RECURSIVE SumOf(_)
SumOf(seq) == IF seq = <<>> THEN 0 ELSE Head(seq) + SumOf(Tail(seq))

\* Math.max(...prices), Math.min(...prices) on a non-empty array
MaxOf(seq) == CHOOSE x \in {seq[i] : i \in DOMAIN seq} :
                  \A i \in DOMAIN seq : seq[i] <= x
MinOf(seq) == CHOOSE x \in {seq[i] : i \in DOMAIN seq} :
                  \A i \in DOMAIN seq : x <= seq[i]

ThirtyDaysSeconds == 30 * 24 * 60 * 60

\* new Date(sale.executed_at) >= thirtyDaysAgo, the clock reading t
InThirtyDays(executed_at, t) ==
    CeilDiv(t - executed_at, MsPerSecond) <= ThirtyDaysSeconds

\* A mean, kept as the pair <<sum, count>>; null for no value
MeanOf(seq) == IF seq = <<>> THEN Null ELSE <<SumOf(seq), Len(seq)>>

\* marketStats before any sale is loaded
NoMarketStats == [lastSalePrice |-> Null, thirtyDayAvg |-> Null,
                  highPrice |-> Null, lowPrice |-> Null, salesCount |-> 0]

\* The rows of l, most recent first (.order('created_at', {ascending: false}))
SalesData(history, l) ==
    Reverse(SelectSeq(history, LAMBDA r : r.reservation_id = l))

\* formattedSales: price is sale.reservation.price, the price of the joined
\* reservations row
FormattedSales(history, listings, l) ==
    [i \in DOMAIN SalesData(history, l) |->
        [price |-> listings[SalesData(history, l)[i].reservation_id].price,
         executed_at |-> SalesData(history, l)[i].created_at]]

\* The stats of a list of sales with fields price and executed_at
StatsOf(sales, t) ==
    IF sales = <<>> THEN NoMarketStats
    ELSE LET prices == [i \in DOMAIN sales |-> sales[i].price]
             thirtyDayPrices ==
                 [i \in DOMAIN SelectSeq(sales, LAMBDA x : InThirtyDays(x.executed_at, t))
                    |-> SelectSeq(sales, LAMBDA x : InThirtyDays(x.executed_at, t))[i].price]
         IN  [lastSalePrice |-> prices[1],
              thirtyDayAvg  |-> MeanOf(thirtyDayPrices),
              highPrice     |-> MaxOf(prices),
              lowPrice      |-> MinOf(prices),
              salesCount    |-> Len(sales)]

\* marketStats as fetchReservation sets it from the store
computeMarketStats(history, listings, l, t) ==
    StatsOf(FormattedSales(history, listings, l), t)

----------------------------------------------------------------------------
(* api.bids.create: client-side pre-check, then the insert *)

\* bid.status is the caller's: the callers of the page pass 'open'
bidsCreate(c, l, amount, max) ==
    /\ call[c] = Idle
    /\ LET found == ActiveRateLimit(rate_limits, user[c], now)
       IN  /\ found # Null \/ HasRoom(max)
           /\ call' = [call EXCEPT ![c] =
                          [op |-> "bidsCreate", step |-> "checked", l |-> l,
                           amount |-> amount, txNow |-> now, found |-> found,
                           seen |-> IF found # Null THEN UserBidCount(user[c])
                                    ELSE Null,
                           bid |-> 0]]
    /\ UNCHANGED <<now, store, user, hook, ctxReservations, pageBids, outcome, rpc>>

bidsCreateProceed(c) ==
    /\ call[c].op = "bidsCreate" /\ call[c].step = "checked"
    /\ IF call[c].found # Null
       THEN LET retryAfter == CeilDiv(call[c].found - now, MsPerSecond)
            IN  /\ Report(c, "bidsCreate", "RATELIMIT", "precheck",
                          getRateLimitRemainingTime(retryAfter), call[c].seen)
                /\ Finish(c)
                /\ UNCHANGED store
       ELSE IF TriggerRaises(c)
       THEN /\ \E code \in TriggerErrCodes :
                   Report(c, "bidsCreate", code, "trigger",
                          getRateLimitRemainingTime(Null), call[c].seen)
            /\ Finish(c)
            /\ AbortInsert(c)
       ELSE /\ StartInsert(c, "bidsCreate", call[c].l, call[c].amount)
            /\ UNCHANGED outcome
    /\ UNCHANGED <<now, user, hook, ctxReservations, pageBids, rpc>>

bidsCreateCommit(c) ==
    /\ call[c].op = "bidsCreate" /\ call[c].step = "insert"
    /\ CommitInsert(c, "open")
    /\ Finish(c)
    /\ Report(c, "bidsCreate", "ok", "none", Null, Null)
    /\ UNCHANGED <<now, user, hook, ctxReservations, pageBids, rpc>>

----------------------------------------------------------------------------
(* ReservationContext: fetchReservations, placeBid, buyNow                  *)

\* fetchReservations: the cache becomes the table
fetchReservations(c) ==
    /\ call[c] = Idle
    /\ ctxReservations' = [ctxReservations EXCEPT ![c] = reservations]
    /\ ctxReservations' # ctxReservations
    /\ UNCHANGED <<now, store, user, hook, pageBids, call, outcome, rpc>>

\* UPDATE reservations SET .. WHERE id = l, through the BEFORE UPDATE trigger
UpdateReservation(l, new) ==
    reservations' = [reservations EXCEPT ![l] = handle_bid_expiration(new, now)]

placeBidInvalid(c, l, amount) ==
    LET reservation == ctxReservations[c][l]
    IN  \/ reservation.allow_bidding # TRUE
        \/ amount < OrZero(reservation.minimum_bid)
        \/ amount <= OrZero(reservation.current_bid)

\* placeBid up to the insert: validate against the cache, insert the bid
placeBid(c, l, amount, max) ==
    /\ call[c] = Idle
    /\ IF placeBidInvalid(c, l, amount)
       THEN /\ Report(c, "placeBid", "false", "validation", Null, Null)
            /\ UNCHANGED <<call, store>>
       ELSE IF TriggerRaises(c)
       THEN /\ Report(c, "placeBid", "false", "trigger", Null, Null)
            /\ AbortInsert(c)
            /\ UNCHANGED call
       ELSE /\ HasRoom(max)
            /\ StartInsert(c, "placeBid", l, amount)
            /\ UNCHANGED outcome
    /\ UNCHANGED <<now, user, hook, ctxReservations, pageBids, rpc>>

\* the insert commits; the update of current_bid is next
placeBidCommit(c) ==
    /\ call[c].op = "placeBid" /\ call[c].step = "insert"
    /\ \E status \in DefaultBidStatus : CommitInsert(c, status)
    /\ call' = [call EXCEPT ![c].step = "update"]
    /\ UNCHANGED <<now, user, hook, ctxReservations, pageBids, outcome, rpc>>

\* .update({current_bid: amount}), fetchReservations(), return true
placeBidUpdate(c) ==
    /\ call[c].op = "placeBid" /\ call[c].step = "update"
    /\ UpdateReservation(call[c].l,
           [reservations[call[c].l] EXCEPT !.current_bid = call[c].amount])
    /\ ctxReservations' = [ctxReservations EXCEPT ![c] = reservations']
    /\ Report(c, "placeBid", "true", "none", Null, Null)
    /\ Finish(c)
    /\ UNCHANGED <<now, bids, rate_limits, reservation_history, user, hook, pageBids, rpc>>

\* placeBid: the update returns updateError: catch, return false
placeBidUpdateFails(c) ==
    /\ call[c].op = "placeBid" /\ call[c].step = "update"
    /\ Report(c, "placeBid", "false", "update", Null, Null)
    /\ Finish(c)
    /\ UNCHANGED <<now, store, user, hook, ctxReservations, pageBids, rpc>>

\* buyer_name: user.name, which the model takes to be the user's id
NewSale(c, l, price) ==
    [reservation_id |-> l, buyer_id |-> user[c], buyer_name |-> user[c],
     price |-> price, created_at |-> now]

\* buyNow up to the update: check the cached stock, update the listing
buyNow(c, l, max) ==
    /\ call[c] = Idle
    /\ LET reservation == ctxReservations[c][l]
           newStock    == OrZero(reservation.stock_remaining) - 1
           newStatus   == IF newStock = 0 THEN "sold" ELSE "available"
       IN  IF newStock < 0
           THEN /\ Report(c, "buyNow", "false", "validation", Null, Null)
                /\ UNCHANGED <<call, store>>
           ELSE /\ Len(reservation_history)
                     + Cardinality({d \in Clients : call[d].step = "history"}) < max
                /\ UpdateReservation(l,
                       [reservations[l] EXCEPT !.stock_remaining = newStock,
                                               !.status = newStatus,
                                               !.last_sale_price = reservation.price,
                                               !.last_sale_date = now])
                /\ call' = [call EXCEPT ![c] =
                               [Idle EXCEPT !.op = "buyNow", !.step = "history",
                                            !.l = l, !.amount = reservation.price]]
                /\ UNCHANGED <<bids, rate_limits, reservation_history, outcome>>
    /\ UNCHANGED <<now, user, hook, ctxReservations, pageBids, rpc>>

\* buyNowHistory with an insert that replaces the listing's latest row
buyNowHistory_upsert(c) ==
    /\ call[c].op = "buyNow" /\ call[c].step = "history"
    /\ LET row  == NewSale(c, call[c].l, call[c].amount)
           same == {i \in DOMAIN reservation_history :
                        reservation_history[i].reservation_id = call[c].l}
       IN  reservation_history' =
               IF same = {} THEN Append(reservation_history, row)
               ELSE [reservation_history EXCEPT
                        ![CHOOSE i \in same : \A j \in same : j <= i] = row]
    /\ ctxReservations' = [ctxReservations EXCEPT ![c] = reservations]
    /\ Report(c, "buyNow", "true", "none", Null, Null)
    /\ Finish(c)
    /\ UNCHANGED <<now, reservations, bids, rate_limits, user, hook, pageBids, rpc>>

\* the reservation_history insert, fetchReservations(), return true
buyNowHistory(c) ==
    /\ call[c].op = "buyNow" /\ call[c].step = "history"
    /\ reservation_history' =
           Append(reservation_history, NewSale(c, call[c].l, call[c].amount))
    /\ ctxReservations' = [ctxReservations EXCEPT ![c] = reservations]
    /\ Report(c, "buyNow", "true", "none", Null, Null)
    /\ Finish(c)
    /\ UNCHANGED <<now, reservations, bids, rate_limits, user, hook, pageBids, rpc>>

\* updateReservation with the listing form of HomePage.handleSubmitForm:
\* UPDATE .. WHERE id = l (no seller filter), then fetchReservations()
updateReservation(c, l, price, allowBidding, minimumBid) ==
    /\ call[c] = Idle
    /\ UpdateReservation(l, [reservations[l] EXCEPT !.price = price,
                                                    !.allow_bidding = allowBidding,
                                                    !.minimum_bid = minimumBid])
    /\ ctxReservations' = [ctxReservations EXCEPT ![c] = reservations']
    /\ Report(c, "updateReservation", "ok", "none", Null, Null)
    /\ UNCHANGED <<now, bids, rate_limits, reservation_history, user, hook, pageBids,
                   call, rpc>>

----------------------------------------------------------------------------
(* ReservationDetailPage.handleBuyNow: insert the history row, mark sold    *)

\* The insert names no price.  Whether the price column accepts that is the
\* table's definition, which no migration of the repository states: the
\* insert either succeeds with a NULL price or is refused.
handleBuyNow(c, l, max) ==
    /\ call[c] = Idle
    /\ \/ /\ Len(reservation_history)
               + Cardinality({d \in Clients : call[d].step = "history"}) < max
          /\ reservation_history' = Append(reservation_history, NewSale(c, l, Null))
          /\ call' = [call EXCEPT ![c] =
                         [Idle EXCEPT !.op = "handleBuyNow", !.step = "update", !.l = l]]
          /\ UNCHANGED outcome
       \/ /\ Report(c, "handleBuyNow", "error", "insert", Null, Null)
          /\ UNCHANGED <<call, reservation_history>>
    /\ UNCHANGED <<now, reservations, bids, rate_limits, user, hook, ctxReservations,
                   pageBids, rpc>>

\* .update({status: 'sold'}), navigate('/dashboard')
handleBuyNowUpdate(c) ==
    /\ call[c].op = "handleBuyNow" /\ call[c].step = "update"
    /\ UpdateReservation(call[c].l, [reservations[call[c].l] EXCEPT !.status = "sold"])
    /\ Report(c, "handleBuyNow", "ok", "none", Null, Null)
    /\ Finish(c)
    /\ UNCHANGED <<now, bids, rate_limits, reservation_history, user, hook,
                   ctxReservations, pageBids, rpc>>

----------------------------------------------------------------------------
(* ReservationDetailPage.handleSellNow: accept the page's highest bid:      *)
(* insert the history row, mark the listing sold, mark the bid accepted    *)

BID_ACCEPTED == "Bid Accepted"

\* The history row of an accepted bid: it names no price
AcceptedSale(l, highestBid) ==
    [reservation_id |-> l, buyer_id |-> highestBid.user_id,
     buyer_name |-> BID_ACCEPTED, price |-> Null, created_at |-> now]

\* Room for one more reservation_history row within max
HasSaleRoom(max) ==
    Len(reservation_history)
        + Cardinality({d \in Clients : call[d].step = "history"}) < max

\* if (!reservation || bids.length === 0) return; then the history insert,
\* which, naming no price, succeeds with a NULL price or is refused
handleSellNow(c, l, max) ==
    /\ call[c] = Idle
    /\ pageBids[c][l] # NoBid
    /\ LET highestBid == pageBids[c][l]
       IN  \/ /\ HasSaleRoom(max)
              /\ reservation_history' =
                     Append(reservation_history, AcceptedSale(l, highestBid))
              /\ call' = [call EXCEPT ![c] =
                             [Idle EXCEPT !.op = "handleSellNow", !.step = "update",
                                          !.l = l, !.amount = highestBid.amount,
                                          !.bid = highestBid.id]]
              /\ UNCHANGED outcome
           \/ /\ Report(c, "handleSellNow", "error", "insert", Null, Null)
              /\ UNCHANGED <<call, reservation_history>>
    /\ UNCHANGED <<now, reservations, bids, rate_limits, user, hook, ctxReservations,
                   pageBids, rpc>>

\* UPDATE reservations SET .. WHERE id = l AND seller_id = user: no row
\* matches for another user, which is no error
UpdateOwnReservation(c, l, new) ==
    IF reservations[l].seller_id = user[c]
    THEN UpdateReservation(l, new)
    ELSE UNCHANGED reservations

\* .update({status: 'sold', price: highestBid.amount}).eq('seller_id', user.id)
handleSellNowUpdate(c) ==
    /\ call[c].op = "handleSellNow" /\ call[c].step = "update"
    /\ UpdateOwnReservation(c, call[c].l,
           [reservations[call[c].l] EXCEPT !.status = "sold",
                                           !.price = call[c].amount])
    /\ call' = [call EXCEPT ![c].step = "accept"]
    /\ UNCHANGED <<now, bids, rate_limits, reservation_history, user, hook,
                   ctxReservations, pageBids, outcome, rpc>>

\* .from('bids').update({status: 'accepted'}).eq('id', highestBid.id),
\* navigate('/dashboard')
handleSellNowAccept(c) ==
    /\ call[c].op = "handleSellNow" /\ call[c].step = "accept"
    /\ bids' = [i \in DOMAIN bids |->
                   IF bids[i].id = call[c].bid
                   THEN [bids[i] EXCEPT !.status = "accepted"]
                   ELSE bids[i]]
    /\ Report(c, "handleSellNow", "ok", "none", Null, Null)
    /\ Finish(c)
    /\ UNCHANGED <<now, reservations, rate_limits, reservation_history, user, hook,
                   ctxReservations, pageBids, rpc>>

----------------------------------------------------------------------------
(* ReservationDetailPage.handlePlaceAsk: the seller's new asking price      *)

\* window.location.reload(): the context and the page load again
Reload(c, l) ==
    /\ ctxReservations' = [ctxReservations EXCEPT ![c] = reservations']
    /\ \E top \in (IF OpenBidsOf(l) = {} THEN {NoBid} ELSE TopOpenBids(l)) :
           pageBids' = [pageBids EXCEPT ![c][l] = top]

handlePlaceAsk(c, l, askValue) ==
    /\ call[c] = Idle
    /\ IF askValue <= 0
       THEN /\ Report(c, "handlePlaceAsk", "error", "validation", Null, Null)
            /\ UNCHANGED <<reservations, ctxReservations, pageBids>>
       ELSE /\ UpdateOwnReservation(c, l, [reservations[l] EXCEPT !.price = askValue])
            /\ Reload(c, l)
            /\ Report(c, "handlePlaceAsk", "ok", "none", Null, Null)
    /\ UNCHANGED <<now, bids, rate_limits, reservation_history, user, hook, call, rpc>>

----------------------------------------------------------------------------
(* The clock *)

Tick ==
    /\ now + TickMs <= MaxTicks * TickMs
    /\ now' = now + TickMs
    /\ UNCHANGED <<store, user, hook, ctxReservations, pageBids, call, outcome, rpc>>

----------------------------------------------------------------------------
(* Initial states *)

\* addReservation: status 'available', stockRemaining 1
NewListing(seller, price, allow_bidding, minimum_bid, bid_end_time) ==
    [seller_id |-> seller, price |-> price, status |-> "available",
     allow_bidding |-> allow_bidding, minimum_bid |-> minimum_bid,
     current_bid |-> Null, bid_end_time |-> bid_end_time,
     stock_remaining |-> 1, last_sale_price |-> Null, last_sale_date |-> Null]

InitWith(listings, logins, tables, times) ==
    /\ now \in times
    /\ reservations \in [Listings -> listings]
    /\ bids = <<>>
    /\ rate_limits \in tables
    /\ reservation_history = <<>>
    /\ user \in logins
    /\ ctxReservations = [c \in Clients |-> reservations]
    /\ pageBids = [c \in Clients |-> [l \in Listings |-> NoBid]]
    /\ call = [c \in Clients |-> Idle]
    /\ outcome = [c \in Clients |-> NoOutcome]
    /\ rpc = NoRpc
    /\ hook = NoHook

----------------------------------------------------------------------------
(* SpecRate: one user, signed in on both clients, inserting bids through    *)
(* the page and through api.bids.create, against the rate limiter          *)

RateAmounts == {150}
ApiClients == {"c1"}

InitRate == InitWith({NewListing("s1", 250, TRUE, Null, Null)},
                     {[c \in Clients |-> "u1"]}, {<<>>}, {0})

NextRate ==
    \/ Tick
    \/ \E c \in Clients, l \in Listings, a \in RateAmounts : handlePlaceBid(c, l, a, MaxBids)
    \/ \E c \in Clients : handlePlaceBidCommit(c)
    \/ \E c \in ApiClients, l \in Listings, a \in RateAmounts : bidsCreate(c, l, a, MaxBids)
    \/ \E c \in Clients : bidsCreateProceed(c)
    \/ \E c \in Clients : bidsCreateCommit(c)

SpecRate == InitRate /\ [][NextRate]_vars

----------------------------------------------------------------------------
(* Properties of the rate limiter *)

\* Client c's call ends in this step with a rate-limit rejection.  (A report
\* equal to the client's previous one leaves every client-side variable as
\* it was: the last disjunct.)
RateLimitedStep(c) ==
    /\ outcome'[c].cause \in RateLimitCauses
    /\ call'[c] = Idle
    /\ \/ outcome'[c] # outcome[c]
       \/ call'[c] # call[c]
       \/ UNCHANGED <<now, user, hook, ctxReservations, pageBids, call, outcome, rpc>>

\* The user's live rate_limits rows for place_bid
LiveCount(u) == AttemptCount(rate_limits, u, PLACE_BID, now)

\* C3: a bid of a user is rejected as rate-limited only when the user has
\* max_bids_per_window (5) live attempts in the window, and no more than 5
\* sequential attempts are admitted per window, on the trigger path and on the
\* api.bids.create path.
C3_RateLimitCeiling ==
    [][\A c \in Clients :
          /\ RateLimitedStep(c) => LiveCount(user[c]) >= max_bids_per_window
          /\ (call[c] = Idle /\ call'[c].step = "insert")
                => LiveCount(user[c]) < max_bids_per_window]_vars

\* C4: the live rate_limits rows of a user for place_bid never exceed
\* max_bids_per_window, under every interleaving of the user's insertions.
C4_AtomicCheckAndRecord ==
    \A u \in Users : LiveCount(u) <= max_bids_per_window

\* C6: a placeBid attempt rejected by the rate-limit check inserts no bid,
\* changes no listing and leaves the rate_limits table as it was.
C6_RejectedAttemptFrame ==
    [][\A c \in Clients :
          RateLimitedStep(c) => UNCHANGED <<bids, reservations, rate_limits>>]_vars

\* C6 witness: a client has just been rejected by the trigger while the
\* user's table holds a row that the check's clean-up deletes (and the abort
\* restores).
C6_Witness ==
    \E c \in Clients :
        /\ outcome[c].cause = "trigger"
        /\ outcome[c].at = now
        /\ TriggerRaises(c)
        /\ CleanExpired(rate_limits, user[c], PLACE_BID, now) # rate_limits

\* The earliest-expiring live row of the user: the oldest blocking record
OldestBlocking(u) ==
    LET live == LiveExpiries(rate_limits, u, now)
    IN  IF live = {} THEN Null ELSE CHOOSE e \in live : \A x \in live : e <= x

\* C7: every rate-limit rejection carries remaining seconds > 0, equal to the
\* time until the user's oldest blocking record expires.
C7_RemainingSeconds ==
    [][\A c \in Clients :
          RateLimitedStep(c) =>
              /\ outcome'[c].retryAfter # Null
              /\ outcome'[c].retryAfter > 0
              /\ OldestBlocking(user[c]) # Null
              /\ outcome'[c].retryAfter
                   = CeilDiv(OldestBlocking(user[c]) - now, MsPerSecond)]_vars

\* Client c holds a report of r remaining seconds, the user has committed no
\* bid since the rejected call was issued, and the r seconds are over at t.
RetryDue(c, t) ==
    /\ outcome[c].retryAfter # Null
    /\ UserBidCount(user[c]) = outcome[c].seen
    /\ t >= outcome[c].at + outcome[c].retryAfter * MsPerSecond

----------------------------------------------------------------------------
(* SpecCheck: check_rate_limit called as a statement of its own, on every   *)
(* small rate_limits table, at every time                                  *)

ActionTypes == {PLACE_BID, "place_ask"}

Times == {k * TickMs : k \in 0..MaxTicks}

RateLimitRow == [user_id : Users, action_type : ActionTypes,
                 expires_at : {TickMs, 3 * TickMs}]

RateLimitTables == UNION {[1..n -> RateLimitRow] : n \in 0..MaxRows}

\* SELECT check_rate_limit(p_user_id, p_action_type, p_max_attempts, ..):
\* the statement commits the clean-up whatever it returns
rpc_check_rate_limit(p_user_id, p_action_type, p_max_attempts) ==
    LET chk == check_rate_limit(rate_limits, p_user_id, p_action_type,
                                p_max_attempts, now)
    IN  /\ rate_limits' = chk.table
        /\ rpc' = [called |-> TRUE, p_user_id |-> p_user_id,
                   p_action_type |-> p_action_type,
                   p_max_attempts |-> p_max_attempts, t |-> now,
                   before |-> rate_limits, allowed |-> chk.allowed]
        /\ UNCHANGED <<now, reservations, bids, reservation_history, user, hook,
                       ctxReservations, pageBids, call, outcome>>

InitCheck == InitWith({NewListing("s1", 250, TRUE, Null, Null)},
                      {[c \in Clients |-> "u1"]}, RateLimitTables, Times)

NextCheck ==
    \E u \in Users, a \in ActionTypes, m \in 1..MaxAttemptsArg :
        rpc_check_rate_limit(u, a, m)

SpecCheck == InitCheck /\ [][NextCheck]_vars

\* The rows of the pair (rpc.p_user_id, rpc.p_action_type) in a table
OfPair(table) ==
    SelectSeq(table, LAMBDA r : r.user_id = rpc.p_user_id
                                /\ r.action_type = rpc.p_action_type)

\* The rows of every other pair in a table
OfOthers(table) ==
    SelectSeq(table, LAMBDA r : ~(r.user_id = rpc.p_user_id
                                  /\ r.action_type = rpc.p_action_type))

\* C5: check_rate_limit returns true iff the rows of (user, action type) that
\* expire later than now number fewer than the maximum; of the table it
\* deletes the rows of that pair that expired before now and no other row.
C5_CheckAllowed ==
    rpc.called =>
        /\ rpc.allowed
             <=> (Len(SelectSeq(OfPair(rpc.before),
                                LAMBDA r : r.expires_at > rpc.t))
                    < rpc.p_max_attempts)
        /\ OfOthers(rate_limits) = OfOthers(rpc.before)
        /\ OfPair(rate_limits)
             = SelectSeq(OfPair(rpc.before), LAMBDA r : ~(r.expires_at < rpc.t))

\* C5 witness: a call that was refused, deleted an expired row of its pair and
\* left an expired row of another pair in the table.
C5_Witness ==
    /\ rpc.called /\ ~rpc.allowed
    /\ Len(rate_limits) < Len(rpc.before)
    /\ \E i \in DOMAIN rate_limits : rate_limits[i].expires_at < rpc.t

----------------------------------------------------------------------------
(* SpecBid: two bidders, each in a session of their own, bidding on one     *)
(* listing through every path                                              *)

BidAmounts == {0, 90, 150}

InitBid == InitWith({NewListing("s1", 250, ab, mb, Null) :
                     ab \in BOOLEAN, mb \in {Null, 100}},
                 {[c \in Clients |-> IF c = "c1" THEN "u1" ELSE "u2"]},
                 {<<>>}, {0})

\* both sessions bid through the context; c2 also on the page, c1 also
\* through the API module
ContextClients == Clients
PageClients == {"c2"}

NextBid ==
    \/ \E c \in ContextClients : fetchReservations(c)
    \/ \E c \in PageClients, l \in Listings : fetchReservation(c, l)
    \/ \E c \in ContextClients, l \in Listings, a \in BidAmounts :
           placeBid(c, l, a, MaxMarketBids)
    \/ \E c \in Clients : placeBidCommit(c)
    \/ \E c \in Clients : placeBidUpdate(c)
    \/ \E c \in PageClients, l \in Listings, a \in BidAmounts :
           handlePlaceBid(c, l, a, MaxMarketBids)
    \/ \E c \in Clients : handlePlaceBidCommit(c)
    \/ \E c \in ApiClients, l \in Listings, a \in BidAmounts :
           bidsCreate(c, l, a, MaxMarketBids)
    \/ \E c \in Clients : bidsCreateProceed(c)
    \/ \E c \in Clients : bidsCreateCommit(c)

SpecBid == InitBid /\ [][NextBid]_vars

\* C1: the amounts of the bids recorded for one listing, in commit order, are
\* strictly increasing.
C1_StrictlyIncreasingBids ==
    \A i, j \in DOMAIN bids :
        (i < j /\ bids[i].reservation_id = bids[j].reservation_id)
            => bids[i].amount < bids[j].amount

\* C9: every recorded bid has a positive amount that is not below the
\* minimum_bid of its listing.
C9_MinimumAndPositive ==
    \A i \in DOMAIN bids :
        /\ bids[i].amount > 0
        /\ bids[i].amount >= OrZero(reservations[bids[i].reservation_id].minimum_bid)

\* C10: every recorded bid is on a listing whose allow_bidding is true.
C10_BiddingAllowed ==
    \A i \in DOMAIN bids : reservations[bids[i].reservation_id].allow_bidding = TRUE

\* The highest amount among the open bids of a listing, or Null
HighestOpenBid(l) ==
    IF OpenBidsOf(l) = {} THEN Null
    ELSE CHOOSE a \in {bids[i].amount : i \in OpenBidsOf(l)} :
             \A i \in OpenBidsOf(l) : bids[i].amount <= a

\* C11: a listing's current_bid, when present, is the highest amount among
\* the listing's open bids.
C11_CurrentBidMirrorsOpenBids ==
    \A l \in Listings :
        reservations[l].current_bid # Null
            => reservations[l].current_bid = HighestOpenBid(l)

----------------------------------------------------------------------------
(* SpecBuy: two buyers, each in a session of their own, buying one listing  *)
(* through both paths                                                      *)

InitBuy == InitWith({NewListing("s1", 250, TRUE, Null, Null)},
                    {[c \in Clients |-> IF c = "c1" THEN "u1" ELSE "u2"]},
                    {<<>>}, {0})

NextBuy ==
    \/ \E c \in Clients : fetchReservations(c)
    \/ \E c \in Clients, l \in Listings : buyNow(c, l, MaxSales)
    \/ \E c \in Clients : buyNowHistory(c)
    \/ \E c \in Clients, l \in Listings : handleBuyNow(c, l, MaxSales)
    \/ \E c \in Clients : handleBuyNowUpdate(c)

SpecBuy == InitBuy /\ [][NextBuy]_vars

SalesOf(l) == {i \in DOMAIN reservation_history :
                   reservation_history[i].reservation_id = l}

BuySuccesses == {c \in Clients : /\ outcome[c].op \in {"buyNow", "handleBuyNow"}
                                 /\ outcome[c].kind \in {"true", "ok"}}

\* C2: for a listing that starts with stock_remaining = 1, at most one sale
\* is recorded and at most one buyer is told the purchase succeeded.
C2_SingleSale ==
    /\ \A l \in Listings : Cardinality(SalesOf(l)) <= 1
    /\ Cardinality(BuySuccesses) <= 1

----------------------------------------------------------------------------
(* SpecSell: the seller and a bidder, each on the detail page: bids and    *)
(* the acceptance of the highest bid                                       *)

SellAmounts == {150, 200}
SellerClients == {"c1"}
BuyerClients == {"c2"}

InitSell == InitWith({NewListing("s1", 250, TRUE, Null, Null)},
                     {[c \in Clients |-> IF c \in SellerClients THEN "s1" ELSE "u1"]},
                     {<<>>}, {0})

NextSell ==
    \/ \E c \in Clients, l \in Listings : fetchReservation(c, l)
    \/ \E c \in BuyerClients, l \in Listings, a \in SellAmounts :
           handlePlaceBid(c, l, a, MaxMarketBids)
    \/ \E c \in Clients : handlePlaceBidCommit(c)
    \/ \E c \in Clients, l \in Listings : handleSellNow(c, l, MaxSales)
    \/ \E c \in Clients : handleSellNowUpdate(c)
    \/ \E c \in Clients : handleSellNowAccept(c)

SpecSell == InitSell /\ [][NextSell]_vars

\* Client c takes a step of handleSellNow on listing l
SellNowStep(c, l) ==
    /\ call'[c] # call[c] \/ outcome'[c] # outcome[c]
    /\ \/ call[c].op = "handleSellNow" /\ call[c].l = l
       \/ call'[c].op = "handleSellNow" /\ call'[c].l = l
       \/ call[c] = Idle /\ call'[c] = Idle /\ outcome'[c].op = "handleSellNow"

\* C12: no step of an acceptance invoked by a user who is not the listing's
\* seller changes a bid, a listing or the sale history, and such an
\* acceptance does not end in success.
C12_OnlySellerAccepts ==
    [][\A c \in Clients, l \in Listings :
          (SellNowStep(c, l) /\ user[c] # reservations[l].seller_id)
              => /\ UNCHANGED <<bids, reservations, reservation_history>>
                 /\ outcome'[c].kind # "ok"]_vars

AcceptedBidsOf(l) ==
    {i \in DOMAIN bids : bids[i].reservation_id = l /\ bids[i].status = "accepted"}

\* C14: a listing has at most one accepted bid.
C14_AtMostOneAccepted ==
    \A l \in Listings : Cardinality(AcceptedBidsOf(l)) <= 1

----------------------------------------------------------------------------
(* SpecLife: one listing with a bidding deadline, over time: the seller    *)
(* changes the ask and edits the listing, a buyer bids and buys            *)

AskAmounts == {0, 300}
LifeBidAmounts == {150}
LifeEnd == TickMs

InitLife == InitWith({NewListing("s1", 250, TRUE, Null, LifeEnd)},
                     {[c \in Clients |-> IF c \in SellerClients THEN "s1" ELSE "u1"]},
                     {<<>>}, {0})

NextLife ==
    \/ Tick
    \/ \E c \in BuyerClients : fetchReservations(c)
    \/ \E c \in SellerClients, l \in Listings, a \in AskAmounts : handlePlaceAsk(c, l, a)
    \/ \E c \in SellerClients, l \in Listings, b \in BOOLEAN :
           updateReservation(c, l, ctxReservations[c][l].price, b, 0)
    \/ \E c \in BuyerClients, l \in Listings, a \in LifeBidAmounts :
           placeBid(c, l, a, MaxMarketBids)
    \/ \E c \in Clients : placeBidCommit(c)
    \/ \E c \in Clients : placeBidUpdate(c)
    \/ \E c \in BuyerClients, l \in Listings : buyNow(c, l, MaxSales)
    \/ \E c \in Clients : buyNowHistory(c)

SpecLife == InitLife /\ [][NextLife]_vars

\* The row a step appends to reservation_history
AppendsSale == Len(reservation_history') = Len(reservation_history) + 1
LastSale == reservation_history'[Len(reservation_history')]

\* C13: every row appended to the sale history carries the price paid: the
\* accepted bid's amount when the row records an acceptance, the listing's
\* price in the store at the moment of the insert when it records a purchase.
C13_PricePaid ==
    [][AppendsSale =>
          /\ LastSale.price # Null
          /\ IF LastSale.buyer_name = BID_ACCEPTED
             THEN \E c \in Clients : /\ SellNowStep(c, LastSale.reservation_id)
                                     /\ LastSale.price = call'[c].amount
             ELSE LastSale.price = reservations[LastSale.reservation_id].price]_vars

TerminalStatuses == {"sold", "expired"}

\* C17: a listing whose status is sold or expired keeps that status in every
\* later state.
C17_TerminalStatuses ==
    [][\A l \in Listings :
          reservations[l].status \in TerminalStatuses
              => reservations'[l].status = reservations[l].status]_vars

----------------------------------------------------------------------------
(* SpecSweep: the trigger reservations_bid_expiration on listing rows of   *)
(* every shape, at every time                                              *)

SweepStatuses == {"available", "pending", "sold", "expired"}
SweepBid == 150

SweepListings ==
    {[NewListing("s1", 250, b, Null, e) EXCEPT !.status = s, !.current_bid = cb] :
        b \in BOOLEAN, e \in {Null, TickMs, 2 * TickMs},
        s \in SweepStatuses, cb \in {Null, SweepBid}}

\* UPDATE reservations SET id = id WHERE id = l: the statement changes no
\* column, the row written is what the trigger returns.  again: the previous
\* statement was the same UPDATE of the same row, issued at t0
reservations_bid_expiration(l) ==
    /\ UpdateReservation(l, reservations[l])
    /\ rpc' = [called |-> TRUE, l |-> l, t |-> now, before |-> reservations[l],
               again |-> rpc.called /\ rpc.l = l,
               t0 |-> IF rpc.called THEN rpc.t ELSE Null]
    /\ UNCHANGED <<now, bids, rate_limits, reservation_history, user, hook,
                   ctxReservations, pageBids, call, outcome>>

InitSweep == InitWith(SweepListings, {[c \in Clients |-> "s1"]}, {<<>>}, {0})

NextSweep ==
    \/ Tick
    \/ \E l \in Listings : reservations_bid_expiration(l)

SpecSweep == InitSweep /\ [][NextSweep]_vars

\* The row was due at time t: deadline passed, still available, bidding on
SweepDue(row, t) ==
    /\ row.bid_end_time # Null /\ row.bid_end_time < t
    /\ row.status = "available"
    /\ row.allow_bidding = TRUE

\* C15: the row the sweep writes is the row it found, with status pending
\* when the row was due and has a current bid, expired when it was due and
\* has none, and the status it had when it was not due.
C15_SweepStatus ==
    rpc.called =>
        reservations[rpc.l] =
            [rpc.before EXCEPT !.status =
                IF SweepDue(rpc.before, rpc.t)
                THEN IF rpc.before.current_bid # Null THEN "pending" ELSE "expired"
                ELSE rpc.before.status]

\* A due row with a bid was swept to pending, or one without to expired
C15_Witness ==
    /\ rpc.called
    /\ SweepDue(rpc.before, rpc.t)
    /\ rpc.before.current_bid # Null
    /\ reservations[rpc.l].status = "pending"

\* C16: a sweep that follows a sweep of the same listing at the same time
\* leaves the row as it found it; sweeping the row once more would change
\* nothing either, and at any later time gives what a single sweep gives then.
C16_SweepIdempotent ==
    rpc.called =>
        /\ (rpc.again /\ rpc.t0 = rpc.t) => reservations[rpc.l] = rpc.before
        /\ handle_bid_expiration(reservations[rpc.l], rpc.t) = reservations[rpc.l]
        /\ handle_bid_expiration(reservations[rpc.l], now)
               = handle_bid_expiration(rpc.before, now)

\* The second of two sweeps in succession, on a row past its deadline that
\* is pending with a bid
C16_Witness ==
    /\ rpc.called /\ rpc.again /\ rpc.t0 = rpc.t
    /\ rpc.before.bid_end_time # Null /\ rpc.before.bid_end_time < rpc.t
    /\ rpc.before.allow_bidding = TRUE
    /\ rpc.before.current_bid # Null
    /\ rpc.before.status = "pending"

----------------------------------------------------------------------------
(* Stock, status and sale history of a single-unit listing (SpecBuy)       *)

\* Client c's purchase of listing l passes its checks and makes its first
\* store call
BuyProceeds(c, l) ==
    /\ call[c] = Idle
    /\ call'[c].op \in {"buyNow", "handleBuyNow"}
    /\ call'[c].l = l

\* C18: stock_remaining never becomes negative, and no purchase proceeds
\* against a listing whose stock_remaining in the store is <= 0.
C18_StockGuard ==
    [][\A l \in Listings :
          /\ reservations'[l].stock_remaining >= 0
          /\ \A c \in Clients :
                 BuyProceeds(c, l) => reservations[l].stock_remaining > 0]_vars

\* C19: a listing with status sold has stock_remaining = 0.
C19_SoldMeansNoStock ==
    \A l \in Listings :
        reservations[l].status = "sold" => reservations[l].stock_remaining = 0

\* C20: a listing is sold exactly when the sale history holds a row for it.
C20_SoldWithHistory ==
    \A l \in Listings : reservations[l].status = "sold" <=> SalesOf(l) # {}

----------------------------------------------------------------------------
(* SpecBuyFail: SpecBuy where a store call may return an error (the        *)
(* `if (error) throw error` branches of buyNow and handleBuyNow)           *)

\* buyNow: the update returns updateError: catch, return false
buyNowUpdateFails(c, l) ==
    /\ call[c] = Idle
    /\ OrZero(ctxReservations[c][l].stock_remaining) - 1 >= 0
    /\ Report(c, "buyNow", "false", "update", Null, Null)
    /\ UNCHANGED <<now, store, user, hook, ctxReservations, pageBids, call, rpc>>

\* buyNow: the insert returns historyError: catch, return false
buyNowHistoryFails(c) ==
    /\ call[c].op = "buyNow" /\ call[c].step = "history"
    /\ Report(c, "buyNow", "false", "insert", Null, Null)
    /\ Finish(c)
    /\ UNCHANGED <<now, store, user, hook, ctxReservations, pageBids, rpc>>

\* handleBuyNow: the update returns updateError: catch, setError
handleBuyNowUpdateFails(c) ==
    /\ call[c].op = "handleBuyNow" /\ call[c].step = "update"
    /\ Report(c, "handleBuyNow", "error", "update", Null, Null)
    /\ Finish(c)
    /\ UNCHANGED <<now, store, user, hook, ctxReservations, pageBids, rpc>>

NextBuyFail ==
    \/ NextBuy
    \/ \E c \in Clients, l \in Listings : buyNowUpdateFails(c, l)
    \/ \E c \in Clients : buyNowHistoryFails(c)
    \/ \E c \in Clients : handleBuyNowUpdateFails(c)

SpecBuyFail == InitBuy /\ [][NextBuyFail]_vars

\* Client c's purchase ends with a failure
BuyFails(c) ==
    /\ outcome'[c] # outcome[c]
    /\ outcome'[c].op \in {"buyNow", "handleBuyNow"}
    /\ outcome'[c].kind \in {"false", "error"}

\* No other call has started or finished, and this is c's first call
FirstCallOf(c) ==
    /\ outcome[c] = NoOutcome
    /\ \A d \in Clients \ {c} : call[d] = Idle /\ outcome[d] = NoOutcome

\* C21: when the first purchase of a run ends with a failure, the listing
\* is as it was listed (stock_remaining, status, last_sale_price,
\* last_sale_date) and the sale history is empty.
C21_FailedBuyChangesNothing ==
    [][\A c \in Clients :
          (BuyFails(c) /\ FirstCallOf(c))
              => /\ \A l \in Listings :
                        reservations'[l] = NewListing("s1", 250, TRUE, Null, Null)
                 /\ reservation_history' = <<>>]_vars

----------------------------------------------------------------------------
(* SpecLedger: every handler that writes reservation_history: the seller   *)
(* accepts bids on the detail page, the buyer bids and buys on both paths  *)

LedgerBidAmounts == {150}

NextLedger ==
    \/ \E c \in Clients, l \in Listings : fetchReservation(c, l)
    \/ \E c \in BuyerClients, l \in Listings, a \in LedgerBidAmounts :
           handlePlaceBid(c, l, a, MaxMarketBids)
    \/ \E c \in Clients : handlePlaceBidCommit(c)
    \/ \E c \in SellerClients, l \in Listings : handleSellNow(c, l, MaxSales)
    \/ \E c \in Clients : handleSellNowUpdate(c)
    \/ \E c \in Clients : handleSellNowAccept(c)
    \/ \E c \in BuyerClients : fetchReservations(c)
    \/ \E c \in BuyerClients, l \in Listings : buyNow(c, l, MaxSales)
    \/ \E c \in Clients : buyNowHistory(c)
    \/ \E c \in BuyerClients, l \in Listings : handleBuyNow(c, l, MaxSales)
    \/ \E c \in Clients : handleBuyNowUpdate(c)

SpecLedger == InitSell /\ [][NextLedger]_vars

----------------------------------------------------------------------------
(* Market stats of a listing (SpecLife)                                    *)

\* The sales of l as recorded: the price is the row's own
RecordedSales(history, l) ==
    [i \in DOMAIN SalesData(history, l) |->
        [price |-> SalesData(history, l)[i].price,
         executed_at |-> SalesData(history, l)[i].created_at]]

\* C23: the market stats of a listing are those of its recorded sales
\* (latest recorded price, highest, lowest, count, mean of the last thirty
\* days), and a step that adds no sale and spends no time leaves them as
\* they were.
C23_StatsFromRecords ==
    [][\A l \in Listings :
          /\ computeMarketStats(reservation_history', reservations', l, now')
                 = StatsOf(RecordedSales(reservation_history', l), now')
          /\ (reservation_history' = reservation_history /\ now' = now)
                 => computeMarketStats(reservation_history', reservations', l, now')
                        = computeMarketStats(reservation_history, reservations, l, now)]_vars

----------------------------------------------------------------------------
(* SpecPlace: one user on two sessions calling ReservationContext.placeBid *)
(* close to the rate limit; the update of current_bid may return an error  *)

PlaceAmounts == {90, 150}

\* The user's earlier bids on other listings: one short of the limit
PriorAttempts ==
    [i \in 1..(max_bids_per_window - 1) |->
        [user_id |-> "u1", action_type |-> PLACE_BID, expires_at |-> 2 * TickMs]]

InitPlace == InitWith({NewListing("s1", 250, TRUE, 100, Null)},
                      {[c \in Clients |-> "u1"]}, {PriorAttempts}, {0})

NextPlace ==
    \/ Tick
    \/ \E c \in Clients : fetchReservations(c)
    \/ \E c \in Clients, l \in Listings, a \in PlaceAmounts :
           placeBid(c, l, a, MaxMarketBids)
    \/ \E c \in Clients : placeBidCommit(c)
    \/ \E c \in Clients : placeBidUpdate(c)
    \/ \E c \in Clients : placeBidUpdateFails(c)

SpecPlace == InitPlace /\ [][NextPlace]_vars

\* C24: two placeBid calls that failed for different reasons (validation,
\* rate limit, another store error) report different outcomes to their
\* callers.
C24_FailuresClassified ==
    \A c, d \in Clients :
        (/\ outcome[c].op = "placeBid" /\ outcome[d].op = "placeBid"
         /\ outcome[c].cause # outcome[d].cause)
            => outcome[c].kind # outcome[d].kind

\* Client c's placeBid returns false
PlaceBidFails(c) ==
    /\ outcome'[c] # outcome[c]
    /\ outcome'[c].op = "placeBid"
    /\ outcome'[c].kind = "false"

\* C30: when the first placeBid of a run returns false, no bid row exists,
\* the rate_limits table is as it was and the listing has no current_bid.
C30_FailedBidChangesNothing ==
    [][\A c \in Clients :
          (PlaceBidFails(c) /\ FirstCallOf(c))
              => /\ bids' = <<>>
                 /\ rate_limits' = PriorAttempts
                 /\ \A l \in Listings : reservations'[l].current_bid = Null]_vars

----------------------------------------------------------------------------
(* Bids and the bidding deadline (SpecLife)                                *)

\* The deadline of listing l has passed
PastDeadline(l) ==
    reservations[l].bid_end_time # Null /\ reservations[l].bid_end_time < now

\* C29: no bid row is added for a listing whose bid_end_time has passed, and
\* a listing past its bid_end_time that is available without a current bid
\* does not become pending.
C29_NoBidAfterDeadline ==
    [][\A l \in Listings :
          PastDeadline(l) =>
              /\ \A i \in DOMAIN bids' \ DOMAIN bids : bids'[i].reservation_id # l
              /\ (reservations[l].status = "available"
                  /\ reservations[l].current_bid = Null)
                     => reservations'[l].status # "pending"]_vars

----------------------------------------------------------------------------
(* The pre-check of api.bids.create against check_rate_limit (SpecRate)    *)

\* Client c's api.bids.create reads rate_limits in this step and finds an
\* active row: the call will be rejected as rate-limited
PreCheckRejects(c) ==
    /\ call[c] = Idle
    /\ call'[c].op = "bidsCreate" /\ call'[c].step = "checked"
    /\ call'[c].found # Null

\* C28: when the pre-check of api.bids.create finds the user rate-limited,
\* check_rate_limit(user, 'place_bid', 5, 300) on the same table at the same
\* time returns false, and the user has at least 5 unexpired rows.
C28_PreCheckAgreesWithLimiter ==
    [][\A c \in Clients :
          PreCheckRejects(c) =>
              /\ ~check_rate_limit(rate_limits, user[c], PLACE_BID,
                                   max_bids_per_window, now).allowed
              /\ AttemptCount(rate_limits, user[c], PLACE_BID, now)
                     >= max_bids_per_window]_vars

----------------------------------------------------------------------------
(* SpecDelete: deleteReservation on listings of every status, by the       *)
(* seller's session and by another user's                                  *)

\* A table or cache without the row of l
Without(listings, l) == [k \in DOMAIN listings \ {l} |-> listings[k]]

\* deleteReservation: DELETE FROM reservations WHERE id = l (no row matched
\* is no error), then the row is dropped from the context's lists
deleteReservation(c, l) ==
    /\ call[c] = Idle
    /\ reservations' = Without(reservations, l)
    /\ ctxReservations' = [ctxReservations EXCEPT ![c] = Without(ctxReservations[c], l)]
    /\ Report(c, "deleteReservation", "ok", "none", Null, Null)
    /\ UNCHANGED <<now, bids, rate_limits, reservation_history, user, hook, pageBids,
                   call, rpc>>

InitDelete == InitWith(SweepListings,
                       {[c \in Clients |-> IF c \in SellerClients THEN "s1" ELSE "u1"]},
                       {<<>>}, {0})

NextDelete ==
    \/ \E c \in Clients : fetchReservations(c)
    \/ \E c \in Clients, l \in Listings : deleteReservation(c, l)

SpecDelete == InitDelete /\ [][NextDelete]_vars

\* Client c's deleteReservation returns in this step
DeleteStep(c) ==
    /\ outcome'[c].op = "deleteReservation"
    /\ reservations' # reservations \/ outcome'[c] # outcome[c]
             \/ ctxReservations'[c] # ctxReservations[c]

\* C25: a listing's row is removed only by a deleteReservation of its seller
\* and only while its status is available.
C25_DeleteByOwnerWhileAvailable ==
    [][\A l \in DOMAIN reservations \ DOMAIN reservations' :
          /\ reservations[l].status = "available"
          /\ \E c \in Clients : /\ DeleteStep(c)
                                /\ user[c] = reservations[l].seller_id]_vars

----------------------------------------------------------------------------
(* useRateLimit: src/hooks/useRateLimit.ts                                 *)

HookFrame == UNCHANGED <<now, store, user, ctxReservations, pageBids, call,
                         outcome, rpc>>

\* details.retryAfter of a rate-limit AppError: none on the trigger's path
\* (details is null), a number of seconds on the pre-check's path
RetryAfters == {Null} \cup 0..MaxRetryAfter

\* The function wrapRateLimitedAction returns is called: it throws at once
\* while blocked, and calls the action otherwise
wrappedCall ==
    /\ IF hook.isBlocked
       THEN hook' = [hook EXCEPT !.last = "blocked"]
       ELSE /\ hook.pending < MaxPending
            /\ hook' = [hook EXCEPT !.pending = @ + 1, !.last = "called"]
    /\ hook' # hook
    /\ HookFrame

\* The action resolves
actionReturns ==
    /\ hook.pending > 0
    /\ hook' = [hook EXCEPT !.pending = @ - 1, !.last = "ok"]
    /\ HookFrame

\* The action throws an error that is no rate-limit error: handleRateLimit
\* does nothing, the error is rethrown
actionThrows ==
    /\ hook.pending > 0
    /\ hook' = [hook EXCEPT !.pending = @ - 1, !.last = "error"]
    /\ HookFrame

\* The action throws a rate-limit AppError: handleRateLimit blocks and, for
\* a truthy remaining time, starts an interval
actionRateLimited(retryAfter) ==
    /\ hook.pending > 0
    /\ LET remainingTime == getRateLimitRemainingTime(retryAfter)
       IN  /\ remainingTime # Null => hook.timers < MaxTimers
           /\ hook' = [hook EXCEPT
                          !.pending = @ - 1,
                          !.isBlocked = TRUE,
                          !.remainingTime = remainingTime,
                          !.timers = IF remainingTime # Null THEN @ + 1 ELSE @,
                          !.reported = remainingTime,
                          !.elapsed = 0,
                          !.last = "RATELIMIT"]
    /\ HookFrame

\* One interval's callback: prev.remainingTime ? prev.remainingTime - 1 : null;
\* !newTime || newTime <= 0 clears this interval and unblocks
intervalCallback(st) ==
    LET newTime == IF st.remainingTime # Null /\ st.remainingTime # 0
                   THEN st.remainingTime - 1 ELSE Null
    IN  IF newTime = Null \/ newTime <= 0
        THEN [st EXCEPT !.isBlocked = FALSE, !.remainingTime = Null,
                        !.timers = @ - 1]
        ELSE [st EXCEPT !.remainingTime = newTime]

RECURSIVE RunCallbacks(_, _)
RunCallbacks(st, k) ==
    IF k = 0 THEN st ELSE RunCallbacks(intervalCallback(st), k - 1)

\* A second passes: the callback of every live interval runs once
IntervalElapses ==
    /\ hook.timers > 0
    /\ hook' = [RunCallbacks(hook, hook.timers) EXCEPT
                   !.elapsed = IF hook.elapsed <= MaxRetryAfter THEN @ + 1 ELSE @]
    /\ HookFrame

InitHook == InitWith({NewListing("s1", 250, TRUE, Null, Null)},
                     {[c \in Clients |-> "u1"]}, {<<>>}, {0})

NextHook ==
    \/ wrappedCall
    \/ actionReturns
    \/ actionThrows
    \/ \E r \in RetryAfters : actionRateLimited(r)
    \/ IntervalElapses

SpecHook == InitHook /\ [][NextHook]_vars

\* The intervals are timers of the browser: a live interval's callback runs
SpecHookLive == SpecHook /\ WF_vars(IntervalElapses)

\* C26: whenever the hook is blocked, it is later not blocked.
C26_EventuallyUnblocked == hook.isBlocked ~> ~hook.isBlocked

\* C27: at most one interval is alive; a second that passes while the hook
\* is blocked takes exactly 1 from remainingTime; and the hook unblocks no
\* earlier than the remaining time of the last rate-limit error after it.
C27_SingleCountdown ==
    [][/\ hook'.timers <= 1
       /\ (hook.isBlocked /\ hook.remainingTime # Null /\ hook'.elapsed # hook.elapsed)
              => IF hook.remainingTime > 1
                 THEN hook'.isBlocked /\ hook'.remainingTime = hook.remainingTime - 1
                 ELSE ~hook'.isBlocked
       /\ (hook.isBlocked /\ ~hook'.isBlocked /\ hook.reported # Null)
              => hook'.elapsed >= hook.reported]_vars

====
